---- MODULE Spec2Model ----
(***************************************************************************)
(* Generation evaluation of walking_neuro_evolution:                       *)
(*   src/src/dummy.py       the agent body (Dummy)                         *)
(*   src/src/simulation.py  the world and run_generation (Simulation)      *)
(*   src/src/visualizer.py  the display flag polled by the tick loop       *)
(*                                                                         *)
(* Physics (pymunk) and the controller (neat) are the environment: what    *)
(* they return is drawn from small sets.  Horizontal positions are pixels; *)
(* the hazard position is kept in 1/60 pixel so that one step of           *)
(* SIM_DT = 1/60 s at LASER_SPEED px/s adds exactly LASER_SPEED.           *)
(***************************************************************************)
EXTENDS Integers, Sequences, FiniteSets, TLC

\* ---------------------------------------------------------------- bounds
NumGenomes == 2        \* genomes handed to run_generation
MaxTicks == 2          \* ticks after which no agent survives a step
MaxCallbacks == 2      \* collision callbacks delivered within one step
RunStep == 3           \* px per step of a trunk that outruns the laser (2.5 px per step)
MaxCpus == 4           \* the largest os.cpu_count() followed

\* ------------------------------------------------------ program constants
MOTOR_RATE == 10
NUM_MOTORS == 6
NUM_SENSORS == 29
NUM_DEBRIS_PARTS == 15
LASER_SPEED == 150
LASER_START_X == -20
SIM_RATE == 60
START_X == 250
START_Y == 150
DEBRIS_CLEANUP_Y == -100
LASER_PASS_MARGIN == 100
max_frames == 2000
PrevFitness == -1000     \* a fitness main.py left on the genomes earlier
DefaultWorkers == 4      \* num_processes when os.cpu_count() is None

None == << >>           \* Python None; a value v that may be None is kept as <<v>>

Genomes == 1..NumGenomes
XS == {START_X, START_X + 1}                 \* trunk x positions physics yields
Readings == {0, 1}                           \* an angle / velocity reading
Kinds == {"motors", "joints", "shapes", "bodies"}
Limbs == {"r_lower_leg", "l_lower_leg", "r_arm", "l_arm"}
Parts == {"body", "head", "r_leg", "l_leg"} \cup Limbs

Max(a, b) == IF a >= b THEN a ELSE b
Min(a, b) == IF a <= b THEN a ELSE b
Abs(a) == IF a >= 0 THEN a ELSE -a
Const(n, v) == [k \in 1..n |-> v]

\* motor vectors a controller may return: two well-formed ones, one short
\* (the 4 outputs of neural_network.NUM_MOTORS), one long
RateVectors == {Const(6, 1), Const(6, -1), Const(4, 1), Const(7, 1)}

VARIABLES
    pc,                 \* position of the running operation
    viz,                \* "none": no visualizer; "open"/"closed": viz.running
    fitness,            \* genome id -> genome.fitness: <<v>>, or None
    dummies_this_gen,   \* genome id -> Dummy
    space,              \* Simulation.space: <<genome id, kind>> elements in it
    remove_later,       \* removals asked for while the space is stepping
    laser_x,            \* Simulation.laser_body.position.x, in 1/60 px
    debris,             \* debris_bodies / debris_shapes: one [id, y] per particle
    idx,                \* position of the for loop over genomes
    active_genomes,     \* _run_visual_simulation's loop variable
    current_active,
    survival_frames,    \* genome id -> frame counter
    movement_distances,
    head_stability,
    results,            \* the list of result tuples
    loc,                \* the locals of the worker running _simulate_dummy, if any
    ticks,              \* iterations of the tick loop begun so far
    steps,              \* space.step calls made so far
    callbacks,          \* callbacks delivered within the current step
    alive_ticks,        \* genome id -> ticks begun with the agent not hit
    hit_tick,           \* genome id -> the tick on which is_hit was set, 0 if never
    created,            \* genome id -> Dummy instances built for it
    ret,                \* the last Dummy method called directly: what it returned
                        \* (for remove_from_space, what it took out of the space);
                        \* within a tick, what the controller just called returned
    cpu_count,          \* run_generation's os.cpu_count(): <<n>>, or None
    num_processes,      \* run_generation's worker count: <<n>>, or None before line 260
    executor,           \* the ProcessPoolExecutor: [max_workers, processes], or None
    futures,            \* genome id -> "pending" / "running" / "done", << >> before line 268
    events,             \* what each tick brings to an agent run in both worlds
    shared_world,       \* that agent's run in _run_visual_simulation, or None
    isolated_world,     \* that agent's run in _simulate_dummy, or None
    debris_runs         \* two runs of one generation that differ in their debris, or None

sim_vars == <<laser_x, debris, idx, active_genomes, current_active,
              survival_frames, movement_distances, head_stability, results,
              loc, ticks, steps, callbacks, alive_ticks, hit_tick, created>>

sim_vars_but_loc == <<laser_x, debris, idx, active_genomes, current_active,
                      survival_frames, movement_distances, head_stability, results,
                      ticks, steps, callbacks, alive_ticks, hit_tick, created>>

pool_vars == <<cpu_count, num_processes, executor, futures>>

pair_vars == <<events, shared_world, isolated_world, debris_runs>>

vars == <<pc, viz, fitness, dummies_this_gen, space, remove_later, sim_vars, ret,
          pool_vars, pair_vars>>

\* ------------------------------------------------------------ Dummy
\* Dummy.__init__: six motors at rate 0, four motor-force slots, flags clear
NewDummy(x) ==
    [ is_hit |-> FALSE, final_x |-> None, x |-> x,
      motors |-> Const(NUM_MOTORS, 0),
      motor_forces |-> Const(4, 0),
      r_foot_contact |-> FALSE, l_foot_contact |-> FALSE,
      r_hand_contact |-> FALSE, l_hand_contact |-> FALSE ]

\* the elements Dummy.__init__ / _create_part add to the space
DummyElements(i) == {<<i, k>> : k \in Kinds}

\* mark_as_hit returning the position on every call
MarkAsHitRet_Always(d) == <<d.x>>

\* mark_as_hit: the returned position (its x), None when already hit
MarkAsHitRet(d) == IF ~d.is_hit THEN <<d.x>> ELSE None

\* mark_as_hit without its guard: final_x is recorded on every call
MarkAsHit_Overwrite(d) == [d EXCEPT !.is_hit = TRUE, !.final_x = <<d.x>>]

\* mark_as_hit flipping the flag instead of setting it
MarkAsHit_Toggle(d) ==
    IF ~d.is_hit THEN [d EXCEPT !.is_hit = TRUE, !.final_x = <<d.x>>]
    ELSE [d EXCEPT !.is_hit = FALSE]

\* mark_as_hit: the Dummy afterwards
MarkAsHit(d) ==
    IF ~d.is_hit THEN [d EXCEPT !.is_hit = TRUE, !.final_x = <<d.x>>] ELSE d

\* the kinds the Dummy's own lists still hold (all four lists are cleared together)
Listed(d) == IF d.motors = <<>> THEN {} ELSE Kinds

\* remove_from_space without its membership tests
InSpace_Unchecked(e, sp) == TRUE

\* lines 224-233: "if motor in self.space.constraints", and the like
InSpace(e, sp) == e \in sp

\* remove_from_space forgetting the loop over self.bodies
RemoveSet_KeepBodies(i, d, sp) ==
    {e \in sp : e[1] = i /\ e[2] \in Listed(d) \ {"bodies"}}

\* remove_from_space: the elements it asks the space to remove
RemoveSet(i, d, sp) == {e \in {<<i, k>> : k \in Listed(d)} : InSpace(e, sp)}

\* space.remove raises when asked to remove an element that is not in the space
RemoveRaises(i, d, sp) == ~(RemoveSet(i, d, sp) \subseteq sp)

\* remove_from_space: the Dummy afterwards (its four lists cleared)
RemoveFromSpace(d) == [d EXCEPT !.motors = <<>>]

\* set_motor_rates without the length check: zip stops at the shorter list
SetMotorRates_Zip(d, rates) ==
    IF d.is_hit \/ d.motors = <<>> THEN d
    ELSE [d EXCEPT !.motors = [k \in 1..Len(d.motors) |->
            IF k <= Len(rates) THEN rates[k] * MOTOR_RATE ELSE d.motors[k]]]

\* set_motor_rates testing only "not self.motors", not is_hit
SetMotorRates_NoHitCheck(d, rates) ==
    IF d.motors = <<>> THEN d
    ELSE IF Len(rates) # Len(d.motors) THEN d
    ELSE [d EXCEPT !.motors = [k \in 1..Len(d.motors) |-> rates[k] * MOTOR_RATE]]

\* set_motor_rates: hasattr(motor, 'force') is false of a pymunk SimpleMotor,
\* so motor_forces is not written
SetMotorRates(d, rates) ==
    IF d.is_hit \/ d.motors = <<>> THEN d
    ELSE IF Len(rates) # Len(d.motors) THEN d
    ELSE [d EXCEPT !.motors = [k \in 1..Len(d.motors) |-> rates[k] * MOTOR_RATE]]

\* get_sensor_data without lines 334-335
ExpandForces_Skip(mf) == mf

\* get_sensor_data line 334: motor_forces grown to six slots
ExpandForces(mf) == IF Len(mf) < 6 THEN Const(6, 0) ELSE mf

\* get_sensor_data: the Dummy afterwards
GetSensorDataState(d) ==
    IF d.is_hit THEN d ELSE [d EXCEPT !.motor_forces = ExpandForces(d.motor_forces)]

Flag(b) == IF b THEN 1 ELSE 0

\* get_sensor_data lines 350-351: indexing motor_forces[0..5] raises IndexError
\* when the list is shorter than six
GetSensorDataRaises(d) == ~d.is_hit /\ Len(ExpandForces(d.motor_forces)) < 6

\* get_sensor_data: the vector returned (nothing when it raises); r stands for
\* the 19 angle and velocity readings
GetSensorDataRet(d, r) ==
    IF d.is_hit THEN Const(29, 0)
    ELSE IF GetSensorDataRaises(d) THEN None
    ELSE Const(6 + 7 + 6, r) \o SubSeq(ExpandForces(d.motor_forces), 1, 6)
         \o << Flag(d.r_foot_contact), Flag(d.l_foot_contact),
               Flag(d.r_hand_contact), Flag(d.l_hand_contact) >>

\* _ground_dummy_collision / _ground_dummy_separate: the contact flag of the
\* limb whose shape the arbiter names takes value v; other parts have no flag
SetContact(d, part, v) ==
    CASE part = "r_lower_leg" -> [d EXCEPT !.r_foot_contact = v]
      [] part = "l_lower_leg" -> [d EXCEPT !.l_foot_contact = v]
      [] part = "r_arm"       -> [d EXCEPT !.r_hand_contact = v]
      [] part = "l_arm"       -> [d EXCEPT !.l_hand_contact = v]
      [] OTHER                -> d

\* ------------------------------------------- the Dummy called directly
\* One Dummy in the space, its methods called in any order, physics moving it
\* in between.
InitDummy ==
    /\ pc = "api"
    /\ viz = "none"
    /\ fitness = [g \in Genomes |-> None]
    /\ dummies_this_gen = (1 :> NewDummy(START_X))
    /\ space = DummyElements(1)
    /\ remove_later = {}
    /\ laser_x = LASER_START_X * SIM_RATE
    /\ debris = << >>
    /\ idx = 0
    /\ active_genomes = 0
    /\ current_active = 0
    /\ survival_frames = << >>
    /\ movement_distances = << >>
    /\ head_stability = << >>
    /\ results = << >>
    /\ loc = << >>
    /\ ticks = 0
    /\ steps = 0
    /\ callbacks = 0
    /\ alive_ticks = [g \in Genomes |-> 0]
    /\ hit_tick = [g \in Genomes |-> 0]
    /\ created = [g \in Genomes |-> IF g = 1 THEN 1 ELSE 0]
    /\ ret = [op |-> "init", val |-> None, raised |-> FALSE]
    /\ cpu_count = None
    /\ num_processes = None
    /\ executor = None
    /\ futures = << >>
    /\ events = << >>
    /\ shared_world = None
    /\ isolated_world = None
    /\ debris_runs = None

ApiMarkAsHit ==
    /\ pc = "api"
    /\ ret' = [op |-> "mark_as_hit", val |-> MarkAsHitRet(dummies_this_gen[1]), raised |-> FALSE]
    /\ dummies_this_gen' = [dummies_this_gen EXCEPT ![1] = MarkAsHit(@)]
    /\ UNCHANGED <<pc, viz, fitness, space, remove_later, sim_vars, pool_vars, pair_vars>>

ApiRemoveFromSpace ==
    /\ pc = "api"
    /\ space' = space \ RemoveSet(1, dummies_this_gen[1], space)
    /\ dummies_this_gen' = [dummies_this_gen EXCEPT ![1] = RemoveFromSpace(@)]
    /\ ret' = [op |-> "remove_from_space",
               val |-> RemoveSet(1, dummies_this_gen[1], space),
               raised |-> RemoveRaises(1, dummies_this_gen[1], space)]
    /\ UNCHANGED <<pc, viz, fitness, remove_later, sim_vars, pool_vars, pair_vars>>

\* elements of one kind taken out of the space by its owner, not by the Dummy
\* (as the loops over local_space.shapes and local_space.bodies at lines 522-528)
ApiSpaceRemove ==
    /\ pc = "api"
    /\ \E k \in Kinds : <<1, k>> \in space /\ space' = space \ {<<1, k>>}
    /\ ret' = [op |-> "space_remove", val |-> None, raised |-> FALSE]
    /\ UNCHANGED <<pc, viz, fitness, dummies_this_gen, remove_later, sim_vars,
                   pool_vars, pair_vars>>

ApiSetMotorRates ==
    /\ pc = "api"
    /\ \E rates \in RateVectors :
         /\ dummies_this_gen' = [dummies_this_gen EXCEPT ![1] = SetMotorRates(@, rates)]
         /\ ret' = [op |-> "set_motor_rates", val |-> rates, raised |-> FALSE]
    /\ UNCHANGED <<pc, viz, fitness, space, remove_later, sim_vars, pool_vars, pair_vars>>

ApiGetSensorData ==
    /\ pc = "api"
    /\ \E r \in Readings :
         ret' = [op |-> "get_sensor_data", val |-> GetSensorDataRet(dummies_this_gen[1], r),
                 raised |-> GetSensorDataRaises(dummies_this_gen[1])]
    /\ dummies_this_gen' = [dummies_this_gen EXCEPT ![1] = GetSensorDataState(@)]
    /\ UNCHANGED <<pc, viz, fitness, space, remove_later, sim_vars, pool_vars, pair_vars>>

\* a physics step between two calls: the trunk moves while its body is in the space
ApiPhysics ==
    /\ pc = "api"
    /\ <<1, "bodies">> \in space
    /\ \E x \in XS : dummies_this_gen' = [dummies_this_gen EXCEPT ![1].x = x]
    /\ ret' = [op |-> "step", val |-> None, raised |-> FALSE]
    /\ UNCHANGED <<pc, viz, fitness, space, remove_later, sim_vars, pool_vars, pair_vars>>

\* a ground begin (v = TRUE) or separate (v = FALSE) event on one limb's shape
ApiGroundContact ==
    /\ pc = "api"
    /\ <<1, "shapes">> \in space
    /\ \E part \in Limbs, v \in BOOLEAN :
         dummies_this_gen' = [dummies_this_gen EXCEPT ![1] = SetContact(@, part, v)]
    /\ ret' = [op |-> "ground", val |-> None, raised |-> FALSE]
    /\ UNCHANGED <<pc, viz, fitness, space, remove_later, sim_vars, pool_vars, pair_vars>>

NextDummy ==
    \/ ApiGroundContact
    \/ ApiMarkAsHit
    \/ ApiRemoveFromSpace
    \/ ApiSpaceRemove
    \/ ApiSetMotorRates
    \/ ApiGetSensorData
    \/ ApiPhysics

SpecDummy == InitDummy /\ [][NextDummy]_vars

\* ------------------------------------------------------------ Simulation
\* what the controller of one agent does on one tick: net.activate raises
\* ("fault") or returns a motor vector, well-formed or short
CtrlOutcomes == { [raises |-> TRUE, out |-> << >>],
                  [raises |-> FALSE, out |-> Const(6, 1)],
                  [raises |-> FALSE, out |-> Const(4, 1)] }

\* the lowest height the debris particles in flight reach within one step: they
\* stay where they are, come down to the cleanup threshold, or pass below it
DebrisFloors == {START_Y, DEBRIS_CLEANUP_Y, DEBRIS_CLEANUP_Y - 1}

\* the parts whose ground contact is delivered during a generation: the head
\* (kills) and the trunk (no flag); the limbs' flags are exercised on the Dummy
\* called directly
GroundParts == {"head", "body"}

\* head_angle / pi as read on a tick: the head upright
HeadAngles == {0}

\* line 376-377: 1.0 - min(1.0, head_angle / pi), for head_angle / pi = h
StabilityScore(h) == 1 - (IF h < 1 THEN h ELSE 1)

\* fitness mixing in the displacement metric
FitnessOf_PlusDistance(frames, distance, stability) == frames + distance

\* fitness counting only the ticks survived to their end
FitnessOf_FullTicks(frames, distance, stability) == frames - 1

\* lines 410 and 519: fitness = float(frames)
FitnessOf(frames, distance, stability) == frames

\* the tick on which genome g's agent was hit, after an operation that took its
\* Dummy from d to d2
HitTick(g, d, d2) == IF ~d.is_hit /\ d2.is_hit THEN alive_ticks[g] ELSE hit_tick[g]

\* line 394: active_genomes = current_active, the agents counted before their
\* controllers ran
UpdatedActive(cur, ds) == cur

\* _create_explosion: NUM_DEBRIS_PARTS particles appended at the position of
\* the agent of genome g (a particle is in the space while it is in the lists)
CreateExplosion(db, g) ==
    db \o [k \in 1..NUM_DEBRIS_PARTS |-> [id |-> <<g, k>>, y |-> START_Y]]

\* del list[i], for Python's index i - 1
DelAt(seq, i) ==
    IF i \in 1..Len(seq) THEN SubSeq(seq, 1, i - 1) \o SubSeq(seq, i + 1, Len(seq))
    ELSE seq

\* the deletions order[lo], ..., order[hi] made one after the other; the range
\* is halved, and the first half is completed before the second is begun
RECURSIVE DelRange(_, _, _, _)
DelRange(seq, order, lo, hi) ==
    IF lo > hi THEN seq
    ELSE IF lo = hi THEN DelAt(seq, order[lo])
    ELSE LET mid == (lo + hi) \div 2
             left == DelRange(seq, order, lo, mid)
         IN IF Len(left) >= 0 THEN DelRange(left, order, mid + 1, hi) ELSE left

\* lines 167-169: the deletions made one after the other, in the given order
DelEach(seq, order) == DelRange(seq, order, 1, Len(order))

\* the list laid out element by element
AsList(f) == SubSeq(f, 1, Len(f))

Reversed(s) == [k \in 1..Len(s) |-> s[Len(s) + 1 - k]]

\* lines 156-164: the indices of the particles below the threshold, collected
\* by the loop that runs from the last index down to the first
RemovedIndices(db) ==
    LET indices == AsList([n \in 1..Len(db) |-> n])
    IN AsList(Reversed(SelectSeq(indices, LAMBDA n : db[n].y < DEBRIS_CLEANUP_Y)))

\* sorted(removed_indices, reverse=True): each entry goes to the place given by
\* the number of entries above it, equal entries keeping their order
SortedReverse(s) ==
    LET place == AsList([j \in 1..Len(s) |->
                    Cardinality({i \in 1..Len(s) : s[i] > s[j]})
                    + Cardinality({i \in 1..j : s[i] = s[j]})])
    IN AsList([k \in 1..Len(s) |-> s[CHOOSE j \in 1..Len(s) : place[j] = k]])

\* _cleanup_debris deleting from the first index up
CleanupDebris_Forward(db) ==
    DelEach(db, Reversed(SortedReverse(RemovedIndices(db))))

\* _cleanup_debris removing the particles at the threshold too
CleanupDebris_AtThreshold(db) == SelectSeq(db, LAMBDA q : q.y > DEBRIS_CLEANUP_Y)

\* _cleanup_debris: the particles below DEBRIS_CLEANUP_Y leave the space and
\* the lists, the highest index first
CleanupDebris(db) == DelEach(db, SortedReverse(RemovedIndices(db)))

\* Simulation.__init__, a visualizer attached (main.py VISUALIZE) or not; the
\* genomes come from neat with no fitness yet, or with the one an earlier
\* evaluation left on them
Init ==
    /\ pc = "idle"
    /\ viz \in {"none", "open"}
    /\ \E prev \in {None, <<PrevFitness>>} : fitness = [g \in Genomes |-> prev]
    /\ dummies_this_gen = << >>
    /\ space = {}
    /\ remove_later = {}
    /\ laser_x = LASER_START_X * SIM_RATE
    /\ debris = << >>
    /\ idx = 0
    /\ active_genomes = 0
    /\ current_active = 0
    /\ survival_frames = << >>
    /\ movement_distances = << >>
    /\ head_stability = << >>
    /\ results = << >>
    /\ loc = << >>
    /\ ticks = 0
    /\ steps = 0
    /\ callbacks = 0
    /\ alive_ticks = [g \in Genomes |-> 0]
    /\ hit_tick = [g \in Genomes |-> 0]
    /\ created = [g \in Genomes |-> 0]
    /\ ret = [op |-> "init", val |-> None, raised |-> FALSE]
    /\ cpu_count = None
    /\ num_processes = None
    /\ executor = None
    /\ futures = << >>
    /\ events = << >>
    /\ shared_world = None
    /\ isolated_world = None
    /\ debris_runs = None

\* _clear_simulation_state leaving the debris lists as they are
ClearDebris_Keep(db) == db

\* _clear_simulation_state lines 62-67: every particle is popped from the lists
\* and taken out of the space
ClearDebris(db) == << >>

\* _reset_laser leaving the laser where it is
ResetLaser_Keep(x) == x

\* _reset_laser: the laser body back at LASER_START_X (its velocity is set to
\* (LASER_SPEED, 0) again, the value it always has)
ResetLaser(x) == LASER_START_X * SIM_RATE

\* the drawn path taken whenever a visualizer is attached
UsesVisualPath_Attached(v) == v # "none"

\* line 252: if self.viz and self.viz.running
UsesVisualPath(v) == v = "open"

\* what run_generation found when it cleared the world: the number of debris
\* particles, the agents that still had shapes in the space, the laser position
Cleared(db, agents, x) ==
    [op |-> "run_generation", val |-> <<Len(db), agents, x>>, raised |-> FALSE]

\* run_generation lines 243-252: clear the world, reset the laser, pick the
\* path.  The Dummies of the earlier generation are found through the shapes
\* still in the space and removed; nothing refers to them afterwards.
RunGeneration ==
    /\ pc = "idle"
    /\ debris' = ClearDebris(debris)
    /\ LET inSpace == {i \in DOMAIN dummies_this_gen : <<i, "shapes">> \in space} IN
         /\ space' = space \ UNION {RemoveSet(i, dummies_this_gen[i], space) : i \in inSpace}
         /\ ret' = Cleared(debris, inSpace, laser_x)
    /\ dummies_this_gen' = << >>
    /\ laser_x' = ResetLaser(laser_x)
    /\ pc' = IF UsesVisualPath(viz) THEN "visual" ELSE "parallel"
    /\ UNCHANGED <<viz, fitness, remove_later, idx, active_genomes, current_active,
                   survival_frames, movement_distances, head_stability, results,
                   loc, ticks, steps, callbacks, alive_ticks, hit_tick, created,
                   pool_vars, pair_vars>>

\* _run_visual_simulation lines 328-351: one Dummy and zeroed metrics per genome
CreateDummies ==
    /\ pc = "visual"
    /\ results' = << >>
    /\ active_genomes' = NumGenomes
    /\ fitness' = [g \in Genomes |-> <<0>>]
    /\ dummies_this_gen' = [g \in Genomes |-> NewDummy(START_X)]
    /\ space' = space \cup UNION {DummyElements(g) : g \in Genomes}
    /\ survival_frames' = [g \in Genomes |-> 0]
    /\ movement_distances' = [g \in Genomes |-> 0]
    /\ head_stability' = [g \in Genomes |-> 0]
    /\ created' = [g \in Genomes |-> created[g] + 1]
    /\ pc' = "loop"
    /\ UNCHANGED <<viz, remove_later, laser_x, debris, idx, current_active, loc,
                   ticks, steps, callbacks, alive_ticks, hit_tick, ret, pool_vars, pair_vars>>

\* the loop test without the look at viz.running
LoopContinues_IgnoreViz(active, v) == active > 0

\* lines 354-358: "while active_genomes > 0" and no break on "not viz.running"
LoopContinues(active, v) == active > 0 /\ v = "open"

\* lines 354-361: the loop goes on, a tick begins
TickBegin ==
    /\ pc = "loop"
    /\ LoopContinues(active_genomes, viz)
    /\ ticks < MaxTicks
    /\ ticks' = ticks + 1
    /\ alive_ticks' = [g \in Genomes |->
          IF dummies_this_gen[g].is_hit THEN alive_ticks[g] ELSE alive_ticks[g] + 1]
    /\ current_active' = 0
    /\ idx' = 1
    /\ pc' = "ctrl"
    /\ UNCHANGED <<viz, fitness, dummies_this_gen, space, remove_later, laser_x,
                   debris, active_genomes, survival_frames, movement_distances,
                   head_stability, results, loc, steps, callbacks, hit_tick, created,
                   ret, pool_vars, pair_vars>>

\* lines 354-358: no agent active, or the visualizer closed: the loop ends
LoopExit ==
    /\ pc = "loop"
    /\ ~LoopContinues(active_genomes, viz)
    /\ pc' = "results"
    /\ UNCHANGED <<viz, fitness, dummies_this_gen, space, remove_later, sim_vars, ret,
                   pool_vars, pair_vars>>

\* the step taken inside the for loop, after the first genome
AllAgentsUpdated_First(i) == i > 1

\* line 362: the for loop over the genomes has reached its end
AllAgentsUpdated(i) == i > NumGenomes

\* no controller was called
NoCall == [op |-> "init", val |-> None, raised |-> FALSE]

\* net.activate was called with outcome c
Activated(c) == [op |-> "activate", val |-> c.out, raised |-> c.raises]

\* the except clause letting the exception pass without a kill
ControllerRaises_Swallowed(d, c) == FALSE

\* lines 381-387: an exception of get_sensor_data or net.activate reaches the
\* except clause
ControllerRaises(d, c) == GetSensorDataRaises(d) \/ c.raises

\* the loop body run for every agent, hit or not
Counted_Always(d) == TRUE

\* line 364: "if dummy and not dummy.is_hit", the agents the loop body is run for
Counted(d) == ~d.is_hit

\* lines 362-391: the loop body for the genome at idx
ControllerTick ==
    /\ pc = "ctrl"
    /\ ~AllAgentsUpdated(idx)
    /\ idx' = idx + 1
    /\ LET d == dummies_this_gen[idx] IN
       IF ~Counted(d)
       THEN /\ ret' = NoCall
            /\ UNCHANGED <<dummies_this_gen, space, debris, current_active,
                           survival_frames, movement_distances, head_stability, hit_tick>>
       ELSE /\ current_active' = current_active + 1
            /\ survival_frames' = [survival_frames EXCEPT ![idx] = @ + 1]
            /\ movement_distances' =
                 [movement_distances EXCEPT ![idx] = Max(@, Abs(d.x - START_X))]
            /\ \E h \in HeadAngles :
                 head_stability' = [head_stability EXCEPT ![idx] = @ + StabilityScore(h)]
            /\ \E c \in CtrlOutcomes :
                 LET d1 == GetSensorDataState(d)
                 IN /\ ret' = Activated(c)
                    /\ IF ControllerRaises(d, c)
                       THEN LET hit_pos == MarkAsHitRet(d1)
                                d2 == MarkAsHit(d1)
                            IN /\ debris' = IF hit_pos # None THEN CreateExplosion(debris, idx)
                                            ELSE debris
                               /\ space' = space \ RemoveSet(idx, d2, space)
                               /\ dummies_this_gen' =
                                    [dummies_this_gen EXCEPT ![idx] = RemoveFromSpace(d2)]
                               /\ hit_tick' = [hit_tick EXCEPT ![idx] = HitTick(idx, d, d2)]
                       ELSE /\ dummies_this_gen' =
                                 [dummies_this_gen EXCEPT ![idx] = SetMotorRates(d1, c.out)]
                            /\ UNCHANGED <<space, debris, hit_tick>>
    /\ UNCHANGED <<pc, viz, fitness, remove_later, laser_x, active_genomes, results,
                   loc, ticks, steps, callbacks, alive_ticks, created, pool_vars, pair_vars>>

\* lines 394-397: active_genomes = current_active, then space.step begins: the
\* bodies in the space move, the laser advances by LASER_SPEED * SIM_DT
StepBegin ==
    /\ pc = "ctrl"
    /\ AllAgentsUpdated(idx)
    /\ active_genomes' = UpdatedActive(current_active, dummies_this_gen)
    /\ LET moving == {i \in Genomes : <<i, "bodies">> \in space} IN
       \E nx \in [moving -> XS] :
         dummies_this_gen' = [i \in Genomes |->
             IF i \in moving THEN [dummies_this_gen[i] EXCEPT !.x = nx[i]]
             ELSE dummies_this_gen[i]]
    /\ \E floor \in DebrisFloors :
         debris' = [k \in DOMAIN debris |-> [debris[k] EXCEPT !.y = Min(@, floor)]]
    /\ laser_x' = laser_x + LASER_SPEED
    /\ steps' = steps + 1
    /\ callbacks' = 0
    /\ pc' = "step"
    /\ ret' = NoCall
    /\ UNCHANGED <<viz, fitness, space, remove_later, idx, current_active,
                   survival_frames, movement_distances, head_stability, results,
                   loc, ticks, alive_ticks, hit_tick, created, pool_vars, pair_vars>>

\* a collision callback was delivered for a shape of agent i (the shape of the
\* given part); r is what its mark_as_hit returned, None when it made no call
Event(name, i, part, r) == [op |-> name, val |-> <<i, part, r>>, raised |-> FALSE]

\* the kill sequence of a collision callback, run while the space is stepping:
\* mark_as_hit, an explosion at the returned position, remove_from_space (the
\* space defers the removal to the end of the step)
KillInStep(i) ==
    LET d == dummies_this_gen[i]
        hit_pos == MarkAsHitRet(d)
        d2 == MarkAsHit(d)
    IN /\ hit_tick' = [hit_tick EXCEPT ![i] = HitTick(i, d, d2)]
       /\ IF hit_pos # None
          THEN /\ debris' = CreateExplosion(debris, i)
               /\ remove_later' = remove_later \cup RemoveSet(i, d2, space)
               /\ dummies_this_gen' = [dummies_this_gen EXCEPT ![i] = RemoveFromSpace(d2)]
          ELSE /\ dummies_this_gen' = [dummies_this_gen EXCEPT ![i] = d2]
               /\ UNCHANGED <<debris, remove_later>>

\* _laser_hit_dummy: the laser begins touching a shape of agent i
LaserHitDummy ==
    /\ pc = "step"
    /\ callbacks < MaxCallbacks
    /\ callbacks' = callbacks + 1
    /\ \E i \in Genomes :
         /\ <<i, "shapes">> \in space
         /\ KillInStep(i)
         /\ ret' = Event("laser_hit", i, "shape", MarkAsHitRet(dummies_this_gen[i]))
    /\ UNCHANGED <<pc, viz, fitness, space, laser_x, idx, active_genomes,
                   current_active, survival_frames, movement_distances,
                   head_stability, results, loc, ticks, steps, alive_ticks,
                   created, pool_vars, pair_vars>>

\* _ground_dummy_collision: the ground begins touching one part of agent i
GroundDummyCollision ==
    /\ pc = "step"
    /\ callbacks < MaxCallbacks
    /\ callbacks' = callbacks + 1
    /\ \E i \in Genomes, part \in GroundParts :
         /\ <<i, "shapes">> \in space
         /\ IF part = "head"
            THEN /\ KillInStep(i)
                 /\ ret' = Event("ground_begin", i, part, MarkAsHitRet(dummies_this_gen[i]))
            ELSE /\ dummies_this_gen' =
                      [dummies_this_gen EXCEPT ![i] = SetContact(@, part, TRUE)]
                 /\ ret' = Event("ground_begin", i, part, None)
                 /\ UNCHANGED <<debris, remove_later, hit_tick>>
    /\ UNCHANGED <<pc, viz, fitness, space, laser_x, idx, active_genomes,
                   current_active, survival_frames, movement_distances,
                   head_stability, results, loc, ticks, steps, alive_ticks,
                   created, pool_vars, pair_vars>>

\* _ground_dummy_separate: one part of agent i stops touching the ground
GroundDummySeparate ==
    /\ pc = "step"
    /\ callbacks < MaxCallbacks
    /\ callbacks' = callbacks + 1
    /\ \E i \in Genomes, part \in GroundParts :
         /\ <<i, "shapes">> \in space
         /\ dummies_this_gen' =
              [dummies_this_gen EXCEPT ![i] = SetContact(@, part, FALSE)]
         /\ ret' = Event("ground_separate", i, part, None)
    /\ UNCHANGED <<pc, viz, fitness, space, remove_later, laser_x, debris, idx,
                   active_genomes, current_active, survival_frames,
                   movement_distances, head_stability, results, loc, ticks, steps,
                   alive_ticks, hit_tick, created, pool_vars, pair_vars>>

\* space.step returns: the removals asked for by the callbacks take effect
StepEnd ==
    /\ pc = "step"
    /\ space' = space \ remove_later
    /\ remove_later' = {}
    /\ pc' = "cleanup"
    /\ ret' = NoCall
    /\ UNCHANGED <<viz, fitness, dummies_this_gen, sim_vars, pool_vars, pair_vars>>

\* line 400: _cleanup_debris
Cleanup ==
    /\ pc = "cleanup"
    /\ debris' = CleanupDebris(debris)
    /\ pc' = "draw"
    /\ UNCHANGED <<viz, fitness, dummies_this_gen, space, remove_later, laser_x, idx,
                   active_genomes, current_active, survival_frames,
                   movement_distances, head_stability, results, loc, ticks, steps,
                   callbacks, alive_ticks, hit_tick, created, ret, pool_vars, pair_vars>>

\* line 403: viz.draw; process_events clears _running on QUIT or ESC
Draw ==
    /\ pc = "draw"
    /\ \E quit \in BOOLEAN : viz' = IF quit THEN "closed" ELSE viz
    /\ pc' = "loop"
    /\ UNCHANGED <<fitness, dummies_this_gen, space, remove_later, sim_vars, ret,
                   pool_vars, pair_vars>>

\* lines 405-413: one result tuple per Dummy of this generation
PrepareResults ==
    /\ pc = "results"
    /\ results' = [g \in Genomes |->
          << g,
             FitnessOf(survival_frames[g], movement_distances[g], head_stability[g]),
             survival_frames[g], movement_distances[g], head_stability[g] >>]
    /\ pc' = "process"
    /\ UNCHANGED <<viz, fitness, dummies_this_gen, space, remove_later, laser_x,
                   debris, idx, active_genomes, current_active, survival_frames,
                   movement_distances, head_stability, loc, ticks, steps, callbacks,
                   alive_ticks, hit_tick, created, ret, pool_vars, pair_vars>>

\* the write-back by position in the results list
AssignedFitness_ByPosition(res, g, old) ==
    IF g \in 1..Len(res) THEN << res[g][2] >> ELSE old

\* the write-back skipped: the genome keeps the fitness it had
AssignedFitness_Skip(res, g, old) == old

\* run_generation lines 277-288: the fitness a genome gets from the results
\* list: each result is written onto the genome with its genome_id, so the last
\* result naming a genome decides
AssignedFitness(res, g, old) ==
    LET hits == {k \in 1..Len(res) : res[k][1] = g} IN
    IF hits = {} THEN old
    ELSE << res[CHOOSE k \in hits : \A j \in hits : j <= k][2] >>

\* run_generation lines 271-324: the results are written back, the report printed
ProcessResults ==
    /\ pc = "process"
    /\ fitness' = [g \in Genomes |-> AssignedFitness(results, g, fitness[g])]
    /\ pc' = "done"
    /\ UNCHANGED <<viz, dummies_this_gen, space, remove_later, sim_vars, ret,
                   pool_vars, pair_vars>>


\* ---------------------------------------------- the isolated path
\* Each worker process runs _simulate_dummy on its own copy of the genome, in
\* its own space; workers share nothing, so they are run one after the other,
\* in the order in which as_completed yields them.
\* the results taken as complete as soon as one worker has returned
Pending_FirstCompleted == {g \in Genomes : Len(results) = 0}

Pending == {g \in Genomes : \A k \in 1..Len(results) : results[k][1] # g}

\* _simulate_dummy lines 424-488: the local space, laser, Dummy and counters
WorkerStart ==
    /\ pc = "parallel"
    /\ \E g \in Pending :
         /\ loc' = << [ genome_id |-> g, dummy |-> NewDummy(START_X), space |-> Kinds,
                       laser_x |-> LASER_START_X * SIM_RATE, survival_frames |-> 0,
                       movement_distance |-> 0, head_stability |-> 0 ] >>
         /\ created' = [created EXCEPT ![g] = @ + 1]
    /\ pc' = "w_loop"
    /\ UNCHANGED <<viz, fitness, dummies_this_gen, space, remove_later, laser_x,
                   debris, idx, active_genomes, current_active, survival_frames,
                   movement_distances, head_stability, results, ticks, steps,
                   callbacks, alive_ticks, hit_tick, ret, pool_vars, pair_vars>>

\* the worker's loop test without the ceiling
WorkerContinues_NoCeiling(d, frames) == ~d.is_hit

\* line 491: while not dummy.is_hit and survival_frames < max_frames
WorkerContinues(d, frames) == ~d.is_hit /\ frames < max_frames

\* where local_space.step may put the trunk of the worker's Dummy: near the
\* start, or, for an agent that has run from its first step on, RunStep further
WorkerXS(w) ==
    (IF w.dummy.x \in XS THEN XS ELSE {})
    \cup (IF w.dummy.x = START_X + RunStep * w.survival_frames
          THEN {w.dummy.x + RunStep} ELSE {})

\* lines 491-498: the loop goes on: sensors, activate, set_motor_rates, then
\* local_space.step begins; an exception of the controller leaves the worker
\* and is raised again by future.result() in run_generation (line 269).
\* Iterations are followed up to the given number of frames.
WorkerTickUpTo(limit) ==
    /\ pc = "w_loop"
    /\ LET w == loc[1] IN
       /\ WorkerContinues(w.dummy, w.survival_frames)
       /\ w.survival_frames < limit
       /\ alive_ticks' = [alive_ticks EXCEPT ![w.genome_id] = @ + 1]
       /\ \E c \in CtrlOutcomes :
            LET d1 == GetSensorDataState(w.dummy) IN
            /\ ret' = Activated(c)
            /\ IF GetSensorDataRaises(w.dummy) \/ c.raises
               THEN /\ loc' = << [w EXCEPT !.dummy = d1] >>
                    /\ pc' = "raised"
                    /\ UNCHANGED <<steps, callbacks>>
               ELSE /\ \E x \in WorkerXS(w) :
                         loc' = << [w EXCEPT !.dummy = [SetMotorRates(d1, c.out) EXCEPT !.x = x],
                                             !.laser_x = @ + LASER_SPEED] >>
                    /\ pc' = "w_step"
                    /\ steps' = steps + 1
                    /\ callbacks' = 0
    /\ UNCHANGED <<viz, fitness, dummies_this_gen, space, remove_later, laser_x,
                   debris, idx, active_genomes, current_active, survival_frames,
                   movement_distances, head_stability, results, ticks, hit_tick,
                   created, pool_vars, pair_vars>>

WorkerTick == WorkerTickUpTo(MaxTicks)

\* _local_laser_hit_dummy: mark_as_hit, nothing else
LocalLaserHitDummy ==
    /\ pc = "w_step"
    /\ callbacks < MaxCallbacks
    /\ callbacks' = callbacks + 1
    /\ "shapes" \in loc[1].space
    /\ loc' = << [loc[1] EXCEPT !.dummy = MarkAsHit(@)] >>
    /\ hit_tick' = [hit_tick EXCEPT ![loc[1].genome_id] =
                      HitTick(loc[1].genome_id, loc[1].dummy, loc'[1].dummy)]
    /\ UNCHANGED <<pc, viz, fitness, dummies_this_gen, space, remove_later, laser_x,
                   debris, idx, active_genomes, current_active, survival_frames,
                   movement_distances, head_stability, results, ticks, steps,
                   alive_ticks, created, ret, pool_vars, pair_vars>>

\* the parts whose ground contact is delivered in a worker's space: the head
\* and a lower leg
LocalGroundParts == {"head", "r_lower_leg"}

\* _local_head_ground_collision, lines 459-468, for the shape of one part:
\* mark_as_hit when the part is the head, nothing for any other part
LocalGroundBegin(d, part) == IF part = "head" THEN MarkAsHit(d) ELSE d

\* _local_head_ground_collision, the only handler of ground contact in the
\* local space (lines 472-473 set begin; no separate handler is set)
LocalHeadGroundCollision ==
    /\ pc = "w_step"
    /\ callbacks < MaxCallbacks
    /\ callbacks' = callbacks + 1
    /\ "shapes" \in loc[1].space
    /\ \E part \in LocalGroundParts :
         /\ loc' = << [loc[1] EXCEPT !.dummy = LocalGroundBegin(@, part)] >>
         /\ ret' = Event("ground_begin", loc[1].genome_id, part,
                         IF part = "head" THEN MarkAsHitRet(loc[1].dummy) ELSE None)
    /\ hit_tick' = [hit_tick EXCEPT ![loc[1].genome_id] =
                      HitTick(loc[1].genome_id, loc[1].dummy, loc'[1].dummy)]
    /\ UNCHANGED <<pc, viz, fitness, dummies_this_gen, space, remove_later, laser_x,
                   debris, idx, active_genomes, current_active, survival_frames,
                   movement_distances, head_stability, results, ticks, steps,
                   alive_ticks, created, pool_vars, pair_vars>>

\* lines 500-516: the step has returned: the metrics, then the break when the
\* laser is more than LASER_PASS_MARGIN past the trunk
WorkerStepEnd ==
    /\ pc = "w_step"
    /\ LET w == loc[1] IN
       /\ \E h \in HeadAngles :
            loc' = << [w EXCEPT !.survival_frames = @ + 1,
                                !.movement_distance = Max(@, Abs(w.dummy.x - START_X)),
                                !.head_stability = @ + StabilityScore(h)] >>
       /\ pc' = IF w.laser_x > (w.dummy.x + LASER_PASS_MARGIN) * SIM_RATE
                THEN "w_exit" ELSE "w_loop"
    /\ ret' = NoCall
    /\ UNCHANGED <<viz, fitness, dummies_this_gen, space, remove_later, sim_vars_but_loc,
                   pool_vars, pair_vars>>

\* line 491: the loop condition fails
WorkerLoopExit ==
    /\ pc = "w_loop"
    /\ ~WorkerContinues(loc[1].dummy, loc[1].survival_frames)
    /\ pc' = "w_exit"
    /\ UNCHANGED <<viz, fitness, dummies_this_gen, space, remove_later, sim_vars, ret,
                   pool_vars, pair_vars>>

\* lines 518-530: fitness, the shapes and bodies leave the local space (its
\* constraints stay), the tuple is returned and collected by as_completed
WorkerReturn ==
    /\ pc = "w_exit"
    /\ LET w == loc[1] IN
       /\ results' = Append(results,
             << w.genome_id,
                FitnessOf(w.survival_frames, w.movement_distance, w.head_stability),
                w.survival_frames, w.movement_distance, w.head_stability >>)
       /\ loc' = << [w EXCEPT !.space = @ \ {"shapes", "bodies"}] >>
    /\ pc' = "parallel"
    /\ UNCHANGED <<viz, fitness, dummies_this_gen, space, remove_later, laser_x,
                   debris, idx, active_genomes, current_active, survival_frames,
                   movement_distances, head_stability, ticks, steps, callbacks,
                   alive_ticks, hit_tick, created, ret, pool_vars, pair_vars>>

\* line 269: every future has yielded its result
CollectResults ==
    /\ pc = "parallel"
    /\ Pending = {}
    /\ pc' = "process"
    /\ UNCHANGED <<viz, fitness, dummies_this_gen, space, remove_later, sim_vars, ret,
                   pool_vars, pair_vars>>

Next ==
    \/ RunGeneration
    \/ CreateDummies
    \/ TickBegin
    \/ LoopExit
    \/ ControllerTick
    \/ StepBegin
    \/ LaserHitDummy
    \/ GroundDummyCollision
    \/ GroundDummySeparate
    \/ StepEnd
    \/ Cleanup
    \/ Draw
    \/ PrepareResults
    \/ ProcessResults
    \/ WorkerStart
    \/ WorkerTick
    \/ LocalLaserHitDummy
    \/ LocalHeadGroundCollision
    \/ WorkerStepEnd
    \/ WorkerLoopExit
    \/ WorkerReturn
    \/ CollectResults

Spec == Init /\ [][Next]_vars

\* --------------------------------------------- generation after generation
\* run_generation is called once per generation on the same Simulation: the
\* space, the debris lists, the laser and the visualizer stay from one call to
\* the next, the locals of the call do not.
\* main.py line 140 (through neat's p.run, line 220), or any other caller:
\* run_generation is called again, with the genomes of the next population
NextGeneration ==
    /\ pc = "done"
    /\ pc' = "idle"
    /\ \E prev \in {None, <<PrevFitness>>} : fitness' = [g \in Genomes |-> prev]
    /\ idx' = 0
    /\ active_genomes' = 0
    /\ current_active' = 0
    /\ survival_frames' = << >>
    /\ movement_distances' = << >>
    /\ head_stability' = << >>
    /\ results' = << >>
    /\ loc' = << >>
    /\ ticks' = 0
    /\ steps' = 0
    /\ callbacks' = 0
    /\ alive_ticks' = [g \in Genomes |-> 0]
    /\ hit_tick' = [g \in Genomes |-> 0]
    /\ created' = [g \in Genomes |-> 0]
    /\ ret' = NoCall
    /\ UNCHANGED <<viz, dummies_this_gen, space, remove_later, laser_x, debris,
                   pool_vars, pair_vars>>

\* set_visualizer (lines 56-58) with a new Visualizer, whose _running is True
\* (visualizer.py line 33)
SetVisualizer ==
    /\ pc = "idle"
    /\ viz # "open"
    /\ viz' = "open"
    /\ UNCHANGED <<pc, fitness, dummies_this_gen, space, remove_later, sim_vars, ret,
                   pool_vars, pair_vars>>

NextGenerations ==
    \/ Next
    \/ NextGeneration
    \/ SetVisualizer

SpecGenerations == Init /\ [][NextGenerations]_vars

\* ------------------------------------------- the pool of worker processes
\* run_generation's isolated branch at the grain of whole evaluations: the
\* executor is created with num_processes workers, one future is submitted per
\* genome, the pool starts processes as work is waiting, up to max_workers;
\* each process takes one waiting future at a time, runs _simulate_dummy to its
\* end and hands back its tuple; as_completed yields the tuples in the order
\* of completion.  What one evaluation does inside is followed in Spec.
\* what os.cpu_count() may return
CpuCounts == {None} \cup {<<n>> : n \in 1..MaxCpus}

\* the worker count with no CPU left free
NumProcesses_AllCpus(c) == IF c # None THEN Max(1, c[1]) ELSE DefaultWorkers

\* line 260: max(1, cpu_count - 1) if cpu_count else 4
NumProcesses(c) == IF c # None THEN Max(1, c[1] - 1) ELSE DefaultWorkers

\* the futures a process of the pool is working on
Running == {g \in DOMAIN futures : futures[g] = "running"}

\* lines 259-268: the CPU count, the worker count, the executor, one future
\* submitted per genome
CreateExecutor ==
    /\ pc = "parallel"
    /\ executor = None
    /\ \E c \in CpuCounts :
         /\ cpu_count' = c
         /\ num_processes' = <<NumProcesses(c)>>
         /\ executor' = << [max_workers |-> NumProcesses(c), processes |-> 0] >>
    /\ futures' = [g \in Genomes |-> "pending"]
    /\ pc' = "pool"
    /\ UNCHANGED <<viz, fitness, dummies_this_gen, space, remove_later, sim_vars, ret, pair_vars>>

\* the executor starts one more worker process while futures are waiting and
\* fewer than max_workers processes exist
SpawnProcess ==
    /\ pc = "pool"
    /\ \E g \in Genomes : futures[g] = "pending"
    /\ executor[1].processes < executor[1].max_workers
    /\ executor' = << [executor[1] EXCEPT !.processes = @ + 1] >>
    /\ UNCHANGED <<pc, viz, fitness, dummies_this_gen, space, remove_later, sim_vars,
                   ret, cpu_count, num_processes, futures, pair_vars>>

\* an idle process of the pool takes a waiting future and calls _simulate_dummy
TakeTask ==
    /\ pc = "pool"
    /\ Cardinality(Running) < executor[1].processes
    /\ \E g \in Genomes :
         /\ futures[g] = "pending"
         /\ futures' = [futures EXCEPT ![g] = "running"]
         /\ created' = [created EXCEPT ![g] = @ + 1]
    /\ UNCHANGED <<pc, viz, fitness, dummies_this_gen, space, remove_later, laser_x,
                   debris, idx, active_genomes, current_active, survival_frames,
                   movement_distances, head_stability, results, loc, ticks, steps,
                   callbacks, alive_ticks, hit_tick, ret, cpu_count, num_processes,
                   executor, pair_vars>>

\* line 530 and line 269: _simulate_dummy returns its tuple after some number
\* of frames; as_completed yields it
CompleteTask ==
    /\ pc = "pool"
    /\ \E g \in Running, frames \in 0..MaxTicks :
         /\ results' = Append(results, << g, FitnessOf(frames, 0, frames), frames, 0, frames >>)
         /\ alive_ticks' = [alive_ticks EXCEPT ![g] = frames]
         /\ futures' = [futures EXCEPT ![g] = "done"]
    /\ UNCHANGED <<pc, viz, fitness, dummies_this_gen, space, remove_later, laser_x,
                   debris, idx, active_genomes, current_active, survival_frames,
                   movement_distances, head_stability, loc, ticks, steps, callbacks,
                   hit_tick, created, ret, cpu_count, num_processes, executor, pair_vars>>

\* line 269 and the end of the with block: every future has yielded its
\* result, the executor shuts its processes down
ExecutorExit ==
    /\ pc = "pool"
    /\ \A g \in Genomes : futures[g] = "done"
    /\ executor' = << [executor[1] EXCEPT !.processes = 0] >>
    /\ pc' = "process"
    /\ UNCHANGED <<viz, fitness, dummies_this_gen, space, remove_later, sim_vars, ret,
                   cpu_count, num_processes, futures, pair_vars>>

NextPool ==
    \/ RunGeneration
    \/ CreateExecutor
    \/ SpawnProcess
    \/ TakeTask
    \/ CompleteTask
    \/ ExecutorExit
    \/ ProcessResults

SpecPool == Init /\ [][NextPool]_vars

\* ------------------------------------- one isolated evaluation, to its end
\* One worker running _simulate_dummy for one genome, followed past the ceiling
\* of max_frames iterations.  The worker is scheduled until it returns or
\* raises (a process of the pool runs its task to completion).
InitWorker ==
    /\ pc = "w_loop"
    /\ viz = "none"
    /\ fitness = [g \in Genomes |-> None]
    /\ dummies_this_gen = << >>
    /\ space = {}
    /\ remove_later = {}
    /\ laser_x = LASER_START_X * SIM_RATE
    /\ debris = << >>
    /\ idx = 0
    /\ active_genomes = 0
    /\ current_active = 0
    /\ survival_frames = << >>
    /\ movement_distances = << >>
    /\ head_stability = << >>
    /\ results = << >>
    /\ loc = << [ genome_id |-> 1, dummy |-> NewDummy(START_X), space |-> Kinds,
                  laser_x |-> LASER_START_X * SIM_RATE, survival_frames |-> 0,
                  movement_distance |-> 0, head_stability |-> 0 ] >>
    /\ ticks = 0
    /\ steps = 0
    /\ callbacks = 0
    /\ alive_ticks = [g \in Genomes |-> 0]
    /\ hit_tick = [g \in Genomes |-> 0]
    /\ created = [g \in Genomes |-> IF g = 1 THEN 1 ELSE 0]
    /\ ret = [op |-> "init", val |-> None, raised |-> FALSE]
    /\ cpu_count = None
    /\ num_processes = None
    /\ executor = None
    /\ futures = << >>
    /\ events = << >>
    /\ shared_world = None
    /\ isolated_world = None
    /\ debris_runs = None

LongWorkerTick == WorkerTickUpTo(max_frames + MaxTicks)

NextWorker ==
    \/ LongWorkerTick
    \/ LocalLaserHitDummy
    \/ LocalHeadGroundCollision
    \/ WorkerStepEnd
    \/ WorkerLoopExit
    \/ WorkerReturn

SpecWorker == InitWorker /\ [][NextWorker]_vars /\ WF_vars(NextWorker)

\* --------------------------------------- one agent, run in both worlds
\* The same genome is evaluated once by _run_visual_simulation, alone in the
\* shared space with the display staying open, and once by _simulate_dummy.
\* Tick by tick both runs are given the same controller outcome and the same
\* physics event.
\* the ticks followed: one more than MaxTicks, for the tick after the last kill
PairTicks == MaxTicks + 1

\* what a tick brings: the outcome of net.activate, and whether space.step
\* delivers a kill callback (the laser, or the ground on the head) for the agent
PairInputs == [ctrl : CtrlOutcomes, hit : BOOLEAN]

\* _run_visual_simulation lines 335-352 for one genome
SharedStart ==
    [ dummy |-> NewDummy(START_X), in_space |-> TRUE, active_genomes |-> 1,
      survival_frames |-> 0, trace |-> << >> ]

\* line 354: while active_genomes > 0
SharedContinues(s) == s.active_genomes > 0

\* lines 360-403, one iteration for the one agent: the counter and the
\* controller when the agent is not hit (a fault kills it and takes it out of
\* the space), active_genomes = current_active, space.step with its callbacks,
\* then the removal of a Dummy hit during the step
SharedTick(s, in) ==
    IF ~SharedContinues(s) THEN s
    ELSE LET d == s.dummy
             alive == ~d.is_hit
             d1 == GetSensorDataState(d)
             fault == alive /\ (GetSensorDataRaises(d) \/ in.ctrl.raises)
             d2 == IF ~alive THEN d
                   ELSE IF fault THEN RemoveFromSpace(MarkAsHit(d1))
                   ELSE SetMotorRates(d1, in.ctrl.out)
             inside == s.in_space /\ ~fault
             d3 == IF inside /\ in.hit THEN MarkAsHit(d2) ELSE d2
         IN [ dummy |-> IF inside /\ d3.is_hit THEN RemoveFromSpace(d3) ELSE d3,
              in_space |-> inside /\ ~d3.is_hit,
              active_genomes |-> UpdatedActive(IF alive THEN 1 ELSE 0, (1 :> d2)),
              survival_frames |-> s.survival_frames + (IF alive THEN 1 ELSE 0),
              trace |-> s.trace \o (IF alive THEN <<"activate">> ELSE << >>)
                               \o <<"step">> ]

\* lines 406-411: the result tuple's fitness and frames
SharedResult(s) == << FitnessOf(s.survival_frames, 0, 0), s.survival_frames >>

\* _simulate_dummy lines 424-488
IsolatedStart ==
    [ dummy |-> NewDummy(START_X), laser_x |-> LASER_START_X * SIM_RATE,
      survival_frames |-> 0, trace |-> << >>, raised |-> FALSE, broke |-> FALSE ]

\* the worker's loop has not been left by the loop test, the break or an exception
IsolatedContinues(w) ==
    ~w.raised /\ ~w.broke /\ WorkerContinues(w.dummy, w.survival_frames)

\* lines 491-516, one iteration: the controller (its exception leaves the
\* function), local_space.step with its callbacks, the counter, the break
IsolatedTick(w, in) ==
    IF ~IsolatedContinues(w) THEN w
    ELSE LET d1 == GetSensorDataState(w.dummy) IN
         IF GetSensorDataRaises(w.dummy) \/ in.ctrl.raises
         THEN [w EXCEPT !.dummy = d1, !.trace = Append(@, "activate"), !.raised = TRUE]
         ELSE LET d2 == SetMotorRates(d1, in.ctrl.out)
                  d3 == IF in.hit THEN MarkAsHit(d2) ELSE d2
                  lx == w.laser_x + LASER_SPEED
              IN [ dummy |-> d3, laser_x |-> lx,
                   survival_frames |-> w.survival_frames + 1,
                   trace |-> w.trace \o <<"activate", "step">>,
                   raised |-> FALSE,
                   broke |-> lx > (d3.x + LASER_PASS_MARGIN) * SIM_RATE ]

\* lines 518-530: the tuple's fitness and frames; nothing when the worker raised
IsolatedResult(w) ==
    IF w.raised THEN None
    ELSE << FitnessOf(w.survival_frames, 0, 0), w.survival_frames >>

InitPair ==
    /\ pc = "pair"
    /\ viz = "open"
    /\ fitness = [g \in Genomes |-> None]
    /\ dummies_this_gen = << >>
    /\ space = {}
    /\ remove_later = {}
    /\ laser_x = LASER_START_X * SIM_RATE
    /\ debris = << >>
    /\ idx = 0
    /\ active_genomes = 0
    /\ current_active = 0
    /\ survival_frames = << >>
    /\ movement_distances = << >>
    /\ head_stability = << >>
    /\ results = << >>
    /\ loc = << >>
    /\ ticks = 0
    /\ steps = 0
    /\ callbacks = 0
    /\ alive_ticks = [g \in Genomes |-> 0]
    /\ hit_tick = [g \in Genomes |-> 0]
    /\ created = [g \in Genomes |-> 0]
    /\ ret = NoCall
    /\ cpu_count = None
    /\ num_processes = None
    /\ executor = None
    /\ futures = << >>
    /\ events \in [1..PairTicks -> PairInputs]
    /\ shared_world = SharedStart
    /\ isolated_world = IsolatedStart
    /\ debris_runs = None

\* both loops are given the next tick's controller outcome and physics event
PairTick ==
    /\ pc = "pair"
    /\ ticks < PairTicks
    /\ SharedContinues(shared_world) \/ IsolatedContinues(isolated_world)
    /\ ticks' = ticks + 1
    /\ shared_world' = SharedTick(shared_world, events[ticks + 1])
    /\ isolated_world' = IsolatedTick(isolated_world, events[ticks + 1])
    /\ UNCHANGED <<pc, viz, fitness, dummies_this_gen, space, remove_later, laser_x,
                   debris, idx, active_genomes, current_active, survival_frames,
                   movement_distances, head_stability, results, loc, steps,
                   callbacks, alive_ticks, hit_tick, created, ret, pool_vars, events,
                   debris_runs>>

\* both loops are over: the two result tuples
PairReturn ==
    /\ pc = "pair"
    /\ ~SharedContinues(shared_world)
    /\ ~IsolatedContinues(isolated_world)
    /\ results' = << SharedResult(shared_world), IsolatedResult(isolated_world) >>
    /\ pc' = "pair_done"
    /\ UNCHANGED <<viz, fitness, dummies_this_gen, space, remove_later, laser_x,
                   debris, idx, active_genomes, current_active, survival_frames,
                   movement_distances, head_stability, loc, ticks, steps,
                   callbacks, alive_ticks, hit_tick, created, ret, pool_vars, pair_vars>>

NextPair ==
    \/ PairTick
    \/ PairReturn

SpecPair == InitPair /\ [][NextPair]_vars

\* ------------------------------- one generation, run with different debris
\* The same generation is run twice by _run_visual_simulation, the display
\* staying open.  Tick by tick both runs are given the same controller
\* outcomes and the same contacts; the debris of the second run is changed
\* between ticks.  What a contact does is decided by the shapes' filters.
\* the bits of a category bitmask
AllBits == 0..31

\* pymunk.ShapeFilter(group, categories, mask), the bitmasks as sets of bits;
\* group defaults to 0, categories and mask to all bits
ShapeFilter(g, c, m) == [group |-> g, categories |-> c, mask |-> m]

\* dummy.py line 202: ShapeFilter(group=1)
DUMMY_FILTER == ShapeFilter(1, AllBits, AllBits)

\* the debris shapes left with the default filter
DEBRIS_FILTER_Default == ShapeFilter(0, AllBits, AllBits)

\* simulation.py line 146: ShapeFilter(categories=0b10, mask=0b0)
DEBRIS_FILTER == ShapeFilter(0, {1}, {})

\* simulation.py line 92: ShapeFilter(categories=0b100, mask=0b001)
GROUND_FILTER == ShapeFilter(0, {2}, {0})

\* simulation.py line 104: ShapeFilter(categories=0b1000, mask=0b001)
LASER_FILTER == ShapeFilter(0, {3}, {0})

\* two shapes meet unless they share a non-zero group or one's categories
\* miss the other's mask
Collides(a, b) ==
    /\ ~(a.group # 0 /\ a.group = b.group)
    /\ a.categories \cap b.mask # {}
    /\ b.categories \cap a.mask # {}

\* what a tick brings to an agent: its controller returns ("ok") or raises
\* ("fault"), and space.step may find the laser on it or the ground at its head;
\* besides, debris particles may arrive at the agents' shapes during the step
\* (knock)
Outcomes == {"ok", "fault", "laser", "head"}

\* the outcomes of a tick for the agents of run w: an agent that is hit has no
\* controller call and no shape left to be touched
OutcomesOf(w) ==
    {o \in [Genomes -> Outcomes] : \A g \in Genomes : ~Counted(w.dummy[g]) => o[g] = "ok"}

\* how far the particles in flight fall within one step
TwinFloors == {START_Y, DEBRIS_CLEANUP_Y - 1}

\* lines 335-352 for every genome, the space cleared by run_generation
WorldStart ==
    [ dummy |-> [g \in Genomes |-> NewDummy(START_X)],
      in_space |-> [g \in Genomes |-> TRUE],
      active_genomes |-> NumGenomes,
      survival_frames |-> [g \in Genomes |-> 0],
      hit_tick |-> [g \in Genomes |-> 0],
      ticks |-> 0,
      debris |-> << >> ]

\* _create_explosion called for the agents of S among the genomes 1..n, in the
\* order of the genomes
RECURSIVE ExplodeUpTo(_, _, _)
ExplodeUpTo(db, S, n) ==
    IF n = 0 THEN db
    ELSE LET prev == ExplodeUpTo(db, S, n - 1)
         IN IF n \in S THEN CreateExplosion(prev, n) ELSE prev

\* lines 360-403, one iteration for all agents: the counters and controllers
\* (a fault kills, explodes and removes), active_genomes = current_active,
\* space.step with the contacts its filters let through and the kills they
\* cause, the removal of the agents hit, _cleanup_debris
WorldTick(w, in) ==
    IF ~SharedContinues(w) THEN w
    ELSE LET alive == {g \in Genomes : Counted(w.dummy[g])}
             faults == {g \in alive : in.outcome[g] = "fault"}
             d1 == [g \in Genomes |->
                      IF g \in faults
                      THEN RemoveFromSpace(MarkAsHit(GetSensorDataState(w.dummy[g])))
                      ELSE IF g \in alive
                      THEN SetMotorRates(GetSensorDataState(w.dummy[g]), Const(6, 1))
                      ELSE w.dummy[g]]
             inside == {g \in Genomes : w.in_space[g] /\ g \notin faults}
             db1 == ExplodeUpTo(w.debris, faults, NumGenomes)
             struck == {g \in inside :
                          \/ in.outcome[g] = "laser" /\ Collides(LASER_FILTER, DUMMY_FILTER)
                          \/ in.outcome[g] = "head" /\ Collides(GROUND_FILTER, DUMMY_FILTER)
                          \/ /\ in.knock
                             /\ db1 # << >>
                             /\ Collides(DEBRIS_FILTER, DUMMY_FILTER)}
             kills == {g \in struck : ~d1[g].is_hit}
             fallen == [k \in DOMAIN db1 |-> [db1[k] EXCEPT !.y = Min(@, in.floor)]]
             db2 == ExplodeUpTo(fallen, kills, NumGenomes)
         IN [ dummy |-> [g \in Genomes |->
                          IF g \in kills THEN RemoveFromSpace(MarkAsHit(d1[g])) ELSE d1[g]],
              in_space |-> [g \in Genomes |-> g \in inside \ kills],
              active_genomes |-> UpdatedActive(Cardinality(alive), d1),
              survival_frames |-> [g \in Genomes |->
                          w.survival_frames[g] + (IF g \in alive THEN 1 ELSE 0)],
              hit_tick |-> [g \in Genomes |->
                          IF g \in faults \cup kills THEN w.ticks + 1 ELSE w.hit_tick[g]],
              ticks |-> w.ticks + 1,
              debris |-> CleanupDebris(db2) ]

\* lines 406-411: the result tuples' genome id, fitness and frames
WorldResults(w) ==
    [g \in Genomes |-> << g, FitnessOf(w.survival_frames[g], 0, 0), w.survival_frames[g] >>]

\* the ways the second run's debris is made to differ before a tick: left as
\* it is, taken away, or one more particle put at the cleanup threshold
Changes == {"keep", "none", "more"}

Changed(w, p) ==
    CASE p = "none" -> [w EXCEPT !.debris = << >>]
      [] p = "more" -> [w EXCEPT !.debris = Append(@, [id |-> <<0, w.ticks>>,
                                                        y |-> DEBRIS_CLEANUP_Y])]
      [] OTHER -> w

InitTwin ==
    /\ pc = "twin"
    /\ viz = "open"
    /\ fitness = [g \in Genomes |-> None]
    /\ dummies_this_gen = << >>
    /\ space = {}
    /\ remove_later = {}
    /\ laser_x = LASER_START_X * SIM_RATE
    /\ debris = << >>
    /\ idx = 0
    /\ active_genomes = 0
    /\ current_active = 0
    /\ survival_frames = << >>
    /\ movement_distances = << >>
    /\ head_stability = << >>
    /\ results = << >>
    /\ loc = << >>
    /\ ticks = 0
    /\ steps = 0
    /\ callbacks = 0
    /\ alive_ticks = [g \in Genomes |-> 0]
    /\ hit_tick = [g \in Genomes |-> 0]
    /\ created = [g \in Genomes |-> 0]
    /\ ret = NoCall
    /\ cpu_count = None
    /\ num_processes = None
    /\ executor = None
    /\ futures = << >>
    /\ events = << >>
    /\ shared_world = None
    /\ isolated_world = None
    /\ debris_runs = [a |-> WorldStart, b |-> WorldStart, knock |-> FALSE, with |-> 0]

\* both runs make one iteration on the same controller outcomes and contacts
TwinTick ==
    /\ pc = "twin"
    /\ ticks < PairTicks
    /\ SharedContinues(debris_runs.a) \/ SharedContinues(debris_runs.b)
    /\ ticks' = ticks + 1
    /\ \E outcome \in OutcomesOf(debris_runs.a), knock \in BOOLEAN,
          floor \in TwinFloors, p \in Changes :
         LET in == [outcome |-> outcome, knock |-> knock, floor |-> floor]
             b0 == Changed(debris_runs.b, p)
         IN debris_runs' = [ a |-> WorldTick(debris_runs.a, in),
                             b |-> WorldTick(b0, in),
                             knock |-> knock,
                             with |-> Len(debris_runs.a.debris) - Len(b0.debris) ]
    /\ UNCHANGED <<pc, viz, fitness, dummies_this_gen, space, remove_later, laser_x,
                   debris, idx, active_genomes, current_active, survival_frames,
                   movement_distances, head_stability, results, loc, steps,
                   callbacks, alive_ticks, hit_tick, created, ret, pool_vars, events,
                   shared_world, isolated_world>>

\* both loops are over: the two lists of result tuples
TwinReturn ==
    /\ pc = "twin"
    /\ ~SharedContinues(debris_runs.a)
    /\ ~SharedContinues(debris_runs.b)
    /\ results' = << WorldResults(debris_runs.a), WorldResults(debris_runs.b) >>
    /\ pc' = "twin_done"
    /\ UNCHANGED <<viz, fitness, dummies_this_gen, space, remove_later, laser_x,
                   debris, idx, active_genomes, current_active, survival_frames,
                   movement_distances, head_stability, loc, ticks, steps,
                   callbacks, alive_ticks, hit_tick, created, ret, pool_vars, pair_vars>>

NextTwin ==
    \/ TwinTick
    \/ TwinReturn

SpecTwin == InitTwin /\ [][NextTwin]_vars

\* ================================================================ claims
TheDummy == dummies_this_gen[1]
Visual == viz # "none"          \* the shared path was taken (viz.running at line 252)

\* the agent of genome g was non-terminal for the whole shared generation: alive
\* when the loop ended, or the last to die
WholeGeneration(g) ==
    \/ hit_tick[g] = 0
    \/ \A h \in Genomes : hit_tick[h] # 0 /\ hit_tick[h] <= hit_tick[g]

\* C1: when run_generation has written the fitness back, in either path, each
\* genome's fitness is its survival-frame counter (the frames field of its
\* result tuple), which is the number of ticks begun with its agent not hit,
\* whatever the displacement and stability metrics are.
C1_FitnessIsSurvivalFrames ==
    pc = "done" =>
      /\ Len(results) = NumGenomes
      /\ \A k \in 1..Len(results) :
           /\ fitness[results[k][1]] = <<results[k][3]>>
           /\ results[k][3] = alive_ticks[results[k][1]]

C1_Witness ==
    /\ pc = "done"
    /\ \E k \in 1..Len(results) :
         results[k][3] = 2 /\ results[k][4] = 1 /\ fitness[results[k][1]] = <<2>>

\* C2 as claimed: an agent that became terminal on the first tick of its
\* generation has fitness 0.
C2_FirstTickFitnessZero ==
    pc = "done" => \A g \in Genomes : hit_tick[g] = 1 => fitness[g] = <<0>>

\* C2 amended: an agent on which is_hit was set on the first tick of its
\* generation is evaluated to fitness 1 and one survival frame, in the shared and
\* in the isolated path, and 1 is the fitness its genome carries once
\* run_generation has written the results back: the tick on which it dies is
\* counted.
C2_FirstTickFitnessOne ==
    /\ \A k \in 1..Len(results) :
         hit_tick[results[k][1]] = 1 => results[k][2] = 1 /\ results[k][3] = 1
    /\ pc = "done" => \A g \in Genomes : hit_tick[g] = 1 => fitness[g] = <<1>>

C2_Witness ==
    /\ pc = "done"
    /\ \E g \in Genomes : hit_tick[g] = 1 /\ \E h \in Genomes : hit_tick[h] # 1

\* C3 as claimed: in the shared path an agent that was non-terminal for the whole
\* generation has fitness equal to the number of ticks, which is the number of
\* space.step calls.
C3_WholeGenerationFitnessIsTicks ==
    (pc = "done" /\ Visual) =>
      /\ ticks = steps
      /\ \A g \in Genomes : WholeGeneration(g) => fitness[g] = <<steps>>

\* C4: the first mark_as_hit on a Dummy sets is_hit, records the trunk x of that
\* moment in final_x and returns the position; a later call returns None and
\* changes nothing; no operation changes is_hit or final_x of a hit Dummy.
C4_MarkAsHitIdempotent ==
    [][ LET d == dummies_this_gen[1]
            e == dummies_this_gen'[1]
        IN /\ d.is_hit => e.is_hit /\ e.final_x = d.final_x
           /\ (ret'.op = "mark_as_hit" /\ ~d.is_hit) =>
                 e.is_hit /\ e.final_x = <<d.x>> /\ ret'.val = <<d.x>>
           /\ (ret'.op = "mark_as_hit" /\ d.is_hit) => ret'.val = None /\ e = d
      ]_vars

C4_Witness ==
    /\ ret.op = "mark_as_hit"
    /\ ret.val = None
    /\ TheDummy.is_hit
    /\ TheDummy.final_x # <<TheDummy.x>>

\* C5: within a generation is_hit never goes back to false, for the Dummies of
\* the shared world and for the Dummy of a worker, and no genome gets a second
\* Dummy.
C5_TerminalIsAbsorbing ==
    [][ /\ \A g \in DOMAIN dummies_this_gen :
             dummies_this_gen[g].is_hit =>
               g \in DOMAIN dummies_this_gen' /\ dummies_this_gen'[g].is_hit
        /\ (Len(loc) = 1 /\ Len(loc') = 1 /\ loc'[1].genome_id = loc[1].genome_id
              /\ loc[1].dummy.is_hit) => loc'[1].dummy.is_hit
        /\ \A g \in Genomes : created'[g] <= 1
      ]_vars

C5_Witness ==
    /\ pc = "ctrl"
    /\ ticks = 2
    /\ \E g \in Genomes : dummies_this_gen[g].is_hit /\ hit_tick[g] = 1 /\ idx > g

\* C6: whenever a space.step begins, no Dummy with is_hit set has an element
\* left in the space that is stepped (the shared space, or a worker's space).
C6_HitAgentsLeftTheSpace ==
    [][ steps' # steps =>
          /\ \A g \in DOMAIN dummies_this_gen :
               dummies_this_gen[g].is_hit => \A k \in Kinds : <<g, k>> \notin space
          /\ (Len(loc) = 1 /\ loc[1].dummy.is_hit) => loc[1].space = {}
      ]_vars

C6_Witness ==
    /\ pc = "step"
    /\ \E g, h \in Genomes :
         /\ dummies_this_gen[g].is_hit
         /\ hit_tick[g] < ticks
         /\ \A k \in Kinds : <<g, k>> \notin space
         /\ ~dummies_this_gen[h].is_hit

\* C7: get_sensor_data returns NUM_SENSORS values without raising, the four
\* contact entries 0 or 1, and all of them 0 when is_hit is set.
C7_SensorVector ==
    ret.op = "get_sensor_data" =>
      /\ ~ret.raised
      /\ Len(ret.val) = NUM_SENSORS
      /\ \A k \in 26..29 : ret.val[k] \in {0, 1}
      /\ TheDummy.is_hit => ret.val = Const(NUM_SENSORS, 0)

C7_Witness ==
    /\ ret.op = "get_sensor_data"
    /\ TheDummy.is_hit
    /\ TheDummy.r_foot_contact
    /\ ret.val = Const(NUM_SENSORS, 0)

\* C8: set_motor_rates on a Dummy that is not hit and still owns its motors:
\* six rates set every motor's rate to the rate times MOTOR_RATE and change
\* nothing else; any other number of rates changes nothing at all.
C8_SetMotorRates ==
    [][ LET d == dummies_this_gen[1]
            e == dummies_this_gen'[1]
        IN (ret'.op = "set_motor_rates" /\ ~d.is_hit /\ Len(d.motors) = NUM_MOTORS) =>
             /\ space' = space
             /\ IF Len(ret'.val) = NUM_MOTORS
                THEN e = [d EXCEPT !.motors = [k \in 1..NUM_MOTORS |-> ret'.val[k] * MOTOR_RATE]]
                ELSE e = d
      ]_vars

C8_Witness ==
    /\ ret.op = "set_motor_rates"
    /\ Len(ret.val) = 4
    /\ ~TheDummy.is_hit
    /\ TheDummy.motors = Const(NUM_MOTORS, -MOTOR_RATE)

\* C9: set_motor_rates on a Dummy with is_hit set changes nothing: not a motor
\* rate, not motor_forces, not a flag, whatever the vector.
C9_SetMotorRatesWhenHit ==
    [][ (ret'.op = "set_motor_rates" /\ dummies_this_gen[1].is_hit) =>
           dummies_this_gen' = dummies_this_gen /\ space' = space
      ]_vars

C9_Witness ==
    /\ ret.op = "set_motor_rates"
    /\ Len(ret.val) = NUM_MOTORS
    /\ TheDummy.is_hit
    /\ TheDummy.motors = Const(NUM_MOTORS, 0)

\* C10 as claimed: a controller fault never aborts the generation: run_generation
\* never ends by raising.
C10_NoAbort == pc # "raised"

\* the display was closed during the generation: the shared path ran and the
\* draw hook cleared viz.running
Stopped == viz = "closed"

C12_EveryGenomeHasFitness ==
    pc = "done" =>
        \A g \in Genomes :
            /\ fitness[g] # None
            /\ \E k \in 1..Len(results) :
                 results[k][1] = g /\ fitness[g] = <<results[k][2]>>

C12_Witness ==
    /\ pc = "done"
    /\ viz = "none"
    /\ results[1][1] = 2
    /\ fitness[1] = <<2>>
    /\ fitness[2] = <<1>>

\* C13: once the draw hook has cleared viz.running, nothing of a further tick
\* happens in the generation: no tick begins, no controller runs, no frame
\* counter or metric changes, no Dummy changes and no space.step is made.
C13_NoWorkAfterStop ==
    [][ Stopped =>
          /\ ticks' = ticks
          /\ steps' = steps
          /\ alive_ticks' = alive_ticks
          /\ survival_frames' = survival_frames
          /\ movement_distances' = movement_distances
          /\ head_stability' = head_stability
          /\ dummies_this_gen' = dummies_this_gen
          /\ space' = space
      ]_vars

C13_Witness ==
    /\ pc = "results"
    /\ Stopped
    /\ ticks = 1
    /\ active_genomes > 0
    /\ \E g \in Genomes : ~dummies_this_gen[g].is_hit

\* the worker's evaluation is over: it has returned its tuple, or raised
WorkerOver == pc \in {"parallel", "raised"}

\* C14: an isolated evaluation ends, and it ends with at most max_frames
\* frames: the frame counter never passes max_frames, no iteration begins once
\* the agent is hit or the counter has reached max_frames, the frames and the
\* fitness of the returned tuple are at most max_frames, and the worker
\* eventually returns or raises.
C14_WorkerTerminates ==
    /\ [](/\ loc[1].survival_frames <= max_frames
          /\ (pc = "w_loop" /\ (loc[1].dummy.is_hit \/ loc[1].survival_frames >= max_frames))
                => ~ENABLED LongWorkerTick
          /\ \A k \in 1..Len(results) :
                results[k][3] <= max_frames /\ results[k][2] <= max_frames)
    /\ <>WorkerOver

\* an agent never hit, returned at the ceiling
C14_Witness ==
    /\ pc = "parallel"
    /\ ~loc[1].dummy.is_hit
    /\ results = << <<1, max_frames, max_frames, RunStep * max_frames, max_frames>> >>

\* the tick loop of the shared path is running
InTickLoop == pc \in {"loop", "ctrl", "step", "cleanup", "draw"}

DebrisIds(db) == {db[k].id : k \in DOMAIN db}

\* C15: during the tick loop, a _cleanup_debris call removes exactly the
\* particles whose height is below DEBRIS_CLEANUP_Y, keeping the others as they
\* are and in their order, and no other step of the loop removes a particle.
C15_DebrisCleanup ==
    [][ InTickLoop =>
          IF pc = "cleanup"
          THEN debris' = SelectSeq(debris, LAMBDA q : q.y >= DEBRIS_CLEANUP_Y)
          ELSE DebrisIds(debris) \subseteq DebrisIds(debris')
      ]_vars

\* a cleanup has just removed the fallen particles of one agent and kept those
\* of another, one batch resting exactly at the threshold
C15_Witness ==
    /\ pc = "draw"
    /\ Len(debris) = NUM_DEBRIS_PARTS
    /\ debris[1].y = DEBRIS_CLEANUP_Y
    /\ \A g \in Genomes : dummies_this_gen[g].is_hit

\* C16: remove_from_space never raises, whatever part of the Dummy's elements
\* is still in the space; after it no element of the Dummy is in the space and
\* the Dummy lists none; it changes nothing else of the Dummy; and a call on a
\* Dummy that lists nothing changes neither the space nor the Dummy.
C16_RemoveFromSpaceIdempotent ==
    [][ LET d == dummies_this_gen[1]
            e == dummies_this_gen'[1]
        IN ret'.op = "remove_from_space" =>
             /\ ~ret'.raised
             /\ \A k \in Kinds : <<1, k>> \notin space'
             /\ Listed(e) = {}
             /\ e = [d EXCEPT !.motors = << >>]
             /\ Listed(d) = {} => space' = space /\ e = d
      ]_vars

\* a call that found only the motors and joints still in the space
C16_Witness ==
    /\ ret.op = "remove_from_space"
    /\ ret.val = {<<1, "motors">>, <<1, "joints">>}
    /\ space = {}
    /\ ~TheDummy.is_hit

\* the controller just called, in the shared loop or in a worker, returned a
\* vector that does not have one rate per motor
MalformedOutput ==
    /\ ret.op = "activate"
    /\ ~ret.raised
    /\ Len(ret.val) # NUM_MOTORS

\* the Dummy whose controller was just called
Activator == IF pc = "ctrl" THEN dummies_this_gen[idx - 1] ELSE loc[1].dummy

\* C17 as claimed: an agent whose controller has returned a malformed motor
\* vector is terminal from that tick on, with its elements out of the space.
C17_MalformedIsFault ==
    MalformedOutput => Activator.is_hit /\ Listed(Activator) = {}

\* C18: a tick of the shared path runs in one order.  The step of a tick begins
\* only when the for loop is over and every agent that began the tick alive has
\* had its frame counted and its controller called; it is the tick's only
\* space.step and advances the laser by LASER_SPEED / SIM_RATE; then comes
\* _cleanup_debris, then viz.draw, then the loop head; and from the beginning of
\* the step to the loop head no controller is called and no frame is counted.
C18_TickOrder ==
    [][ InTickLoop =>
          /\ pc = "loop" => pc' \in {"ctrl", "results"} /\ steps' = steps
          /\ pc = "ctrl" =>
               \/ pc' = "ctrl" /\ steps' = steps /\ idx' = idx + 1
               \/ /\ pc' = "step"
                  /\ steps' = steps + 1
                  /\ laser_x' = laser_x + LASER_SPEED
                  /\ \A g \in Genomes : survival_frames[g] = alive_ticks[g]
          /\ pc = "step" => pc' \in {"step", "cleanup"}
          /\ pc = "cleanup" => pc' = "draw"
          /\ pc = "draw" => pc' = "loop"
          /\ pc \in {"step", "cleanup", "draw"} =>
               /\ steps' = steps
               /\ ret.op # "activate" /\ ret'.op # "activate"
               /\ survival_frames' = survival_frames
          /\ pc' # "results" => ticks' = steps' + (IF pc' = "ctrl" THEN 1 ELSE 0)
      ]_vars

C18_Witness ==
    /\ pc = "loop"
    /\ viz = "open"
    /\ ticks = 2
    /\ steps = 2
    /\ \E g, h \in Genomes :
         /\ ~dummies_this_gen[g].is_hit /\ survival_frames[g] = 2
         /\ dummies_this_gen[h].is_hit /\ survival_frames[h] = 1

\* every agent of the generation is terminal
AllTerminal == \A g \in Genomes : dummies_this_gen[g].is_hit

\* C19 as claimed: the shared-path tick loop is left only when every agent is
\* terminal or the display asked for a stop, and the world is never stepped
\* once every agent is terminal.
C19_LoopEndsWithLastAgent ==
    [][ Visual =>
          /\ (pc = "loop" /\ pc' = "results") => (AllTerminal \/ Stopped)
          /\ steps' = steps + 1 => ~AllTerminal
      ]_vars

\* C20: when a generation evaluated by isolated workers has been written back,
\* whatever the order in which the workers completed, each genome was evaluated
\* by exactly one worker and its fitness is the one that worker computed for
\* it: the fitness field of the result tuple carrying its id, which is the
\* number of frames its own worker ran; the position of the tuple in the
\* results list plays no part.
C20_MergedById ==
    (pc = "done" /\ ~Visual) =>
      /\ Len(results) = NumGenomes
      /\ \A g \in Genomes :
           /\ created[g] = 1
           /\ fitness[g] = <<alive_ticks[g]>>
           /\ \A k \in 1..Len(results) :
                results[k][1] = g => fitness[g] = <<results[k][2]>>

C20_Witness ==
    /\ pc = "done"
    /\ ~Visual
    /\ results[1][1] = 2 /\ results[1][2] = 2
    /\ results[2][1] = 1 /\ results[2][2] = 1
    /\ fitness[1] = <<1>>
    /\ fitness[2] = <<2>>

Isolated ==
    \/ pc \in {"parallel", "w_loop", "w_step", "w_exit", "raised"}
    \/ pc \in {"process", "done"} /\ ticks = 0

LaserAtStart == laser_x = LASER_START_X * SIM_RATE

\* C22: run_generation takes the shared drawn path exactly when a visualizer is
\* attached and running when it is called, and the isolated path otherwise (no
\* visualizer, or one that was closed); all along the isolated path the shared
\* world holds no agent and no debris, nothing is added to it or moved in it,
\* and the shared laser stays at its start offset.
C22_ModeSelection ==
    /\ [](Isolated => space = {} /\ debris = << >> /\ remove_later = {} /\ LaserAtStart)
    /\ [][ /\ (pc = "idle" /\ pc' # "idle") =>
                 IF viz = "open" THEN pc' = "visual" ELSE pc' = "parallel"
           /\ (pc' = "visual" /\ pc # "visual") => (pc = "idle" /\ viz = "open")
           /\ (pc' = "parallel" /\ pc = "idle") => viz \in {"none", "closed"}
           /\ (Isolated /\ Isolated') =>
                 /\ space' = space
                 /\ debris' = debris
                 /\ laser_x' = laser_x
                 /\ dummies_this_gen' = dummies_this_gen
                 /\ ticks' = ticks
         ]_vars

C22_Witness ==
    /\ pc = "w_step"
    /\ viz = "closed"
    /\ loc[1].laser_x = laser_x + LASER_SPEED
    /\ LaserAtStart
    /\ created[loc[1].genome_id] = 1

\* the shared world as a generation must find it before its own agents are
\* added: no agent element, no debris, no removal pending, the laser at its start
CleanWorld == space = {} /\ debris = << >> /\ remove_later = {} /\ LaserAtStart

\* C23: in every generation, whatever the generation before left in the world
\* (debris in flight, agents still alive when the display was closed, the laser
\* advanced), the world is clean when the agents of the generation are about to
\* be created, and at the first tick it holds no debris, the laser is at its
\* start offset and the only agent elements in it are those of the Dummies
\* just built, one per genome; when the isolated path is taken the shared
\* world is clean as the evaluations begin.
C23_CleanWorldAtFirstTick ==
    /\ pc = "visual" => CleanWorld
    /\ ((pc = "loop" /\ ticks = 0) \/ (pc = "ctrl" /\ ticks = 1 /\ idx = 1)) =>
          /\ debris = << >>
          /\ remove_later = {}
          /\ LaserAtStart
          /\ space = UNION {DummyElements(g) : g \in Genomes}
          /\ \A g \in Genomes : created[g] = 1 /\ dummies_this_gen[g] = NewDummy(START_X)
    /\ (pc = "parallel" /\ results = << >>) => CleanWorld

C23_Witness ==
    /\ pc = "ctrl" /\ ticks = 1 /\ idx = 1
    /\ ret.op = "run_generation"
    /\ ret.val[1] = NUM_DEBRIS_PARTS
    /\ ret.val[2] # {}
    /\ ret.val[3] > LASER_START_X * SIM_RATE
    /\ LaserAtStart

\* the callback recorded in r runs the kill sequence: the laser on any shape,
\* or the ground on the head
KillEvent(r) ==
    \/ r.op = "laser_hit"
    \/ r.op = "ground_begin" /\ r.val[2] = "head"

\* the debris particles spawned for the agent of genome g that are in the lists
Burst(g, db) == {k \in 1..Len(db) : db[k].id[1] = g}

ContactOf(d, part) ==
    CASE part = "r_lower_leg" -> d.r_foot_contact
      [] part = "l_lower_leg" -> d.l_foot_contact
      [] part = "r_arm"       -> d.r_hand_contact
      [] part = "l_arm"       -> d.l_hand_contact
      [] OTHER                -> FALSE

\* C25, as claimed: in every world in which an agent is evaluated, the shared
\* space and a worker's local space alike, a ground begin-contact on a lower
\* leg or an arm leaves the matching contact flag of that agent true.
C25_ContactFlagsEverywhere ==
    [][ (callbacks' = callbacks + 1 /\ ret'.op = "ground_begin"
            /\ ret'.val[2] \in Limbs) =>
          IF pc = "w_step"
          THEN ContactOf(loc'[1].dummy, ret'.val[2])
          ELSE ContactOf(dummies_this_gen'[ret'.val[1]], ret'.val[2])
      ]_vars

\* C26: in the shared path the laser is at LASER_START_X when the generation
\* begins and LASER_SPEED * SIM_DT further after each space.step, one step per
\* tick, so it never moves back inside the tick loop; it moves only in a
\* space.step, and is put back at the start only by _reset_laser at the
\* beginning of run_generation.
C26_LaserAdvance ==
    /\ [](pc = "visual" \/ InTickLoop =>
            laser_x = LASER_START_X * SIM_RATE + LASER_SPEED * steps)
    /\ [](pc \in {"step", "cleanup", "draw"} => steps = ticks)
    /\ [][ /\ (InTickLoop /\ InTickLoop') => laser_x' >= laser_x
           /\ laser_x' # laser_x =>
                 \/ pc = "ctrl" /\ pc' = "step" /\ laser_x' = laser_x + LASER_SPEED
                 \/ pc = "idle" /\ pc' \in {"visual", "parallel"} /\ LaserAtStart'
         ]_vars

C26_Witness ==
    /\ pc = "visual"
    /\ ret.op = "run_generation"
    /\ ret.val[3] = LASER_START_X * SIM_RATE + LASER_SPEED * MaxTicks
    /\ LaserAtStart

\* C27, as claimed: given the same controller outcomes and the same physics
\* events, _simulate_dummy and _run_visual_simulation with that one agent make
\* the same sequence of controller calls and space steps, and when both are
\* over they report the same fitness and the same survival frames.
C27_IsolatedRefinesShared ==
    /\ pc \in {"pair", "pair_done"} => shared_world.trace = isolated_world.trace
    /\ pc = "pair_done" => results[1] = results[2]

\* the per-agent metrics of _run_visual_simulation exist
HasMetrics == DOMAIN survival_frames = Genomes

\* C28: in the shared path an agent's metrics change only in the loop body run
\* for it on a tick it began alive: there survival_frames grows by exactly 1
\* and movement_distances and head_stability do not decrease; every other
\* step, and the loop body passing over a hit agent, leaves all three as they
\* are, and a hit agent stays hit; so once every agent of a tick has been
\* passed, survival_frames counts the ticks the agent began alive.
C28_MetricsWhileAlive ==
    /\ [](HasMetrics /\ pc # "ctrl" =>
            \A g \in Genomes : survival_frames[g] = alive_ticks[g])
    /\ [][ (HasMetrics /\ HasMetrics') =>
            \A g \in Genomes :
              LET d == dummies_this_gen[g]
                  updated == pc = "ctrl" /\ idx = g /\ idx' = g + 1 /\ ~d.is_hit
              IN /\ updated =>
                      /\ survival_frames'[g] = survival_frames[g] + 1
                      /\ movement_distances'[g] >= movement_distances[g]
                      /\ head_stability'[g] >= head_stability[g]
                 /\ ~updated =>
                      /\ survival_frames'[g] = survival_frames[g]
                      /\ movement_distances'[g] = movement_distances[g]
                      /\ head_stability'[g] = head_stability[g]
                 /\ d.is_hit => dummies_this_gen'[g].is_hit
         ]_vars

C28_Witness ==
    /\ pc = "ctrl"
    /\ ticks = 2
    /\ AllAgentsUpdated(idx)
    /\ \E g, h \in Genomes :
         /\ dummies_this_gen[g].is_hit /\ hit_tick[g] = 1 /\ survival_frames[g] = 1
         /\ head_stability[g] = 1
         /\ ~dummies_this_gen[h].is_hit /\ survival_frames[h] = 2
         /\ movement_distances[h] = 1 /\ head_stability[h] = 2

\* the for loop of the shared path passes the agent of genome g
Passes(g) == pc = "ctrl" /\ idx = g /\ idx' = g + 1

\* C29: in the shared path net.activate is called, and motor rates are set,
\* only for an agent that is not hit.  The loop body passing a hit agent makes
\* no call; a hit agent's motors change only by leaving the space; an agent
\* whose controller raises is hit by the end of that same loop body; and every
\* agent that is not hit has its controller called when the loop passes it.
C29_NoCallAfterTerminal ==
    [][ InTickLoop =>
          \A g \in Genomes :
            LET d == dummies_this_gen[g]
                e == dummies_this_gen'[g]
            IN /\ (Passes(g) /\ d.is_hit) => ret'.op # "activate" /\ e = d
               /\ (Passes(g) /\ ~d.is_hit) => ret'.op = "activate"
               /\ (Passes(g) /\ ret'.op = "activate" /\ ret'.raised) => e.is_hit
               /\ d.is_hit => e.is_hit /\ e.motors \in {d.motors, << >>}
               /\ ~Passes(g) => e.motors \in {d.motors, << >>}
               /\ (ret'.op = "activate" /\ ret' # ret) => \E h \in Genomes : Passes(h)
      ]_vars

C29_Witness ==
    /\ pc = "ctrl"
    /\ ticks = 2
    /\ idx = 2
    /\ callbacks = 0
    /\ ret = NoCall
    /\ dummies_this_gen[1].is_hit
    /\ ~dummies_this_gen[2].is_hit

\* C30: two runs of the same generation in the shared path that are given the
\* same controller outcomes and contacts and differ only in their debris (the
\* particles present, where they are, whether there are any) agree, tick after
\* tick, on which agents are hit, on the tick each was hit, on every frame
\* counter and on the loop's count of active agents, and they end with the
\* same result tuples.
C30_DebrisNoInterference ==
    /\ pc \in {"twin", "twin_done"} =>
          /\ \A g \in Genomes :
                /\ debris_runs.a.dummy[g].is_hit = debris_runs.b.dummy[g].is_hit
                /\ debris_runs.a.hit_tick[g] = debris_runs.b.hit_tick[g]
                /\ debris_runs.a.survival_frames[g] = debris_runs.b.survival_frames[g]
          /\ debris_runs.a.active_genomes = debris_runs.b.active_genomes
    /\ pc = "twin_done" => results[1] = results[2]

C30_Witness ==
    /\ pc = "twin"
    /\ ticks = 2
    /\ debris_runs.with = NUM_DEBRIS_PARTS
    /\ \E g, h \in Genomes :
         /\ debris_runs.a.hit_tick[g] = 1
         /\ debris_runs.knock
         /\ ~debris_runs.a.dummy[h].is_hit
         /\ debris_runs.a.survival_frames[h] = 2

====
